---- MODULE Spec2Model ----
(***************************************************************************)
(* Model of github.com/kapetan-io/errors: the attribute subsystem (With,   *)
(* WithAttr, Wrap, Error, Errorf, ErrAttrs), the field subsystem (Fields,  *)
(* fields) and the shared pairwise decoder argsToAttr.                     *)
(*                                                                         *)
(* Errors live in a heap `errs` (index = identity, 0 = nil).  Attribute    *)
(* slices are Go slices: a backing array (`arrays`) plus a length, so that *)
(* append's in-place writes are visible to every slice sharing the array.  *)
(***************************************************************************)
EXTENDS Integers, Sequences, FiniteSets, TLC

VARIABLES
    arrays,     \* backing arrays of []slog.Attr: [cap, data]
    builders,   \* *Attrs objects returned by With/WithAttr: slice headers
    supplied,   \* history: per builder, the attributes its With calls supplied
    errs,       \* heap of error values
    call,       \* the last operation: [op, recv, arg, ret]
    dorig,      \* argsToAttrSlice: the argument list it was called with
    dargs,      \* argsToAttrSlice: the unconsumed part of args
    dattrs,     \* argsToAttrSlice: attrs decoded so far
    dpc,        \* argsToAttrSlice: "loop" or "done"
    ltarget     \* the caller's variables handed to Last as &target, per interface

vars ==
    <<arrays, builders, supplied, errs, call, dorig, dargs, dattrs, dpc, ltarget>>

-----------------------------------------------------------------------------
(* Bounds *)

\* Spec: error chains, one builder.
MaxErrs == 3
MaxBuilders == 1
\* SpecAlias: many builders, short error chains.
AliasBuilders == 4
AliasErrs == 2
\* SpecNil: Wrap is also handed nil.
NilErrs == 2
NilBuilders == 1
\* SpecDecode: longest argument list handed to the decoder.
MaxDecodeLen == 4
\* SpecFields: the field subsystem alone, with more field lists.
FieldsErrs == 3
\* SpecLast: long chains of Errorf and fmt.Errorf, searched by Last.
LastErrs == 6
\* SpecPair: the same chains built in both subsystems.
PairErrs == 5
PairBuilders == 2

-----------------------------------------------------------------------------
(* Values of type any, and slog.Attr *)

Nil == 0

Str(s) == [t |-> "string", s |-> s]
IntV(n) == [t |-> "int", n |-> n]
NilV == [t |-> "nil"]
\* a slog.Attr passed as an element of an []any
AttrV(k, v) == [t |-> "attr", key |-> k, val |-> v]

\* slog.Attr{Key, Value}; Value.Any() is the value it was built from
Attr(k, v) == [key |-> k, val |-> v]

badKey == "!BADKEY"

OtelCodeFilePath == "code.filepath"
OtelCodeFunction == "code.function"
OtelCodeLineNo == "code.lineno"

-----------------------------------------------------------------------------
(* The pairwise decoder *)

Tail2(s) == SubSeq(s, 3, Len(s))

\* argsToAttr with a lone trailing string taken as a key without a value
argsToAttrKeyNoValue(args) ==
    LET x == args[1] IN
    CASE x.t = "string" ->
            IF Len(args) = 1
            THEN <<Attr(x.s, NilV), <<>>>>
            ELSE <<Attr(x.s, args[2]), Tail2(args)>>
      [] x.t = "attr" -> <<Attr(x.key, x.val), Tail(args)>>
      [] OTHER -> <<Attr(badKey, x), Tail(args)>>

\* argsToAttr(args) for nonempty args: <<attr, rest>>
argsToAttr(args) ==
    LET x == args[1] IN
    CASE x.t = "string" ->
            IF Len(args) = 1
            THEN <<Attr(badKey, x), <<>>>>
            ELSE <<Attr(x.s, args[2]), Tail2(args)>>
      [] x.t = "attr" -> <<Attr(x.key, x.val), Tail(args)>>
      [] OTHER -> <<Attr(badKey, x), Tail(args)>>

RECURSIVE argsToAttrSlice(_)
argsToAttrSlice(args) ==
    IF Len(args) = 0 THEN <<>>
    ELSE LET r == argsToAttr(args) IN <<r[1]>> \o argsToAttrSlice(r[2])

-----------------------------------------------------------------------------
(* Input menus *)

\* argument lists handed to With(...) and used as Fields{...} literals
ArgMenu ==
    { <<Str("k"), Str("outer")>>,
      <<Str("k"), Str("inner")>>,
      <<Str("k2"), IntV(42), Str("odd")>> }

\* attribute lists handed to WithAttr(...)
AttrMenu ==
    { <<Attr("db", Str("sqlite"))>> }

\* Fields{...} literals of the field subsystem on its own
FieldMenu == ArgMenu \cup { <<Str("err"), Str("shadow")>> }

\* the field list and the message of the chains Last searches
LastFields == { <<Str("sonic"), Str("boom")>> }
LastMsgs == {"bottom"}

\* the argument lists attached in both subsystems: one well-formed, one
\* ending in a key without a value
PairMenu ==
    { <<Str("k"), Str("inner")>>,
      <<Str("k2"), IntV(42), Str("odd")>> }

\* messages handed to New, Error and Errorf
Msgs == {"m1", "m2"}

\* elements of the argument lists handed to the decoder on its own
DecodeElems == {Str("onlykey"), Str("k"), IntV(42), AttrV("x", IntV(7))}

-----------------------------------------------------------------------------
(* Go slices of slog.Attr *)

NilSlice == [arr |-> 0, len |-> 0]

CapOf(A, s) == IF s.arr = 0 THEN 0 ELSE A[s.arr].cap

\* the elements a slice shows: its array's first len slots
SliceData(A, s) == IF s.arr = 0 THEN <<>> ELSE SubSeq(A[s.arr].data, 1, s.len)

\* malloc size classes (bytes) that matter for small []slog.Attr
SizeClasses ==
    <<8, 16, 24, 32, 48, 64, 80, 96, 112, 128, 144, 160, 176, 192, 208, 224,
      240, 256, 288, 320, 352, 384, 416, 448, 480, 512>>

\* unsafe.Sizeof(slog.Attr{}): string (16) + slog.Value (24)
AttrSize == 40

RoundUpCap(c) ==
    LET need == c * AttrSize
        fits == {i \in 1..Len(SizeClasses) : SizeClasses[i] >= need}
    IN  IF fits = {} THEN c
        ELSE LET i == CHOOSE i \in fits : \A j \in fits : i <= j
             IN  SizeClasses[i] \div AttrSize

\* capacity of the array append allocates when newLen does not fit in oldCap
GrowCap(oldCap, newLen) ==
    IF newLen > 2 * oldCap THEN RoundUpCap(newLen)
    ELSE RoundUpCap(2 * oldCap)

\* append(s, xs...): the arrays afterwards and the slice returned
GoAppend(A, s, xs) ==
    IF Len(xs) = 0 THEN [arrays |-> A, slice |-> s]
    ELSE IF s.len + Len(xs) <= CapOf(A, s)
    THEN \* room left: written in place, into the array s shares
         LET old == A[s.arr].data
             new == SubSeq(old, 1, s.len) \o xs
                    \o SubSeq(old, s.len + Len(xs) + 1, Len(old))
         IN  [arrays |-> [A EXCEPT ![s.arr].data = new],
              slice |-> [arr |-> s.arr, len |-> s.len + Len(xs)]]
    ELSE \* grow: a new array holding a copy
         LET n == s.len + Len(xs)
             a == [cap |-> GrowCap(CapOf(A, s), n), data |-> SliceData(A, s) \o xs]
         IN  [arrays |-> Append(A, a),
              slice |-> [arr |-> Len(A) + 1, len |-> n]]

\* the receiver of a builder method; 0 is the fresh &Attrs{} of the
\* package-level functions
Receiver(b) == IF b = 0 THEN NilSlice ELSE builders[b]
SuppliedOf(b) == IF b = 0 THEN <<>> ELSE supplied[b]

\* what builder b holds now
BuilderAttrs(b) == SliceData(arrays, Receiver(b))

-----------------------------------------------------------------------------
(* Builder operations *)

\* (a *Attrs) WithAttr(as ...slog.Attr), and WithAttr(as...) for b = 0
DoWithAttr(op, b, as, maxB) ==
    /\ Len(builders) < maxB
    /\ LET r == GoAppend(arrays, Receiver(b), as) IN
        /\ arrays' = r.arrays
        /\ builders' = Append(builders, r.slice)
        /\ supplied' = Append(supplied, SuppliedOf(b) \o as)
        /\ call' = [op |-> op, recv |-> BuilderAttrs(b), arg |-> Nil,
                    ret |-> Len(builders) + 1]
    /\ UNCHANGED <<errs, dorig, dargs, dattrs, dpc, ltarget>>

WithAttr(b, as, maxB) == DoWithAttr("WithAttr", b, as, maxB)

\* (a *Attrs) With(args ...any), and With(args...) for b = 0
With(b, args, maxB) == DoWithAttr("With", b, argsToAttrSlice(args), maxB)

-----------------------------------------------------------------------------
(* The error heap *)

\* errors.New(msg), and fmt.Errorf of a format without %w: *errorString
ErrorString(m) ==
    [kind |-> "errorString", msg |-> m, wrapped |-> Nil, attrs |-> NilSlice,
     given |-> <<>>, pc |-> 0, fields |-> <<>>, via |-> "New"]

\* fmt.Errorf(prefix + ": %w", w): *wrapError, its message fixed when made
WrapError(m, w) ==
    [kind |-> "wrapError", msg |-> m, wrapped |-> w, attrs |-> NilSlice,
     given |-> <<>>, pc |-> 0, fields |-> <<>>, via |-> "fmt.Errorf"]

\* &ErrAttrs{pc, attrs, wrapped}; given: what the builder had been supplied
ErrAttrs(pc, b, w, via) ==
    [kind |-> "ErrAttrs", msg |-> "", wrapped |-> w, attrs |-> Receiver(b),
     given |-> SuppliedOf(b), pc |-> pc, fields |-> <<>>, via |-> via]

\* &fields{fields, wrapped}
FieldsNode(f, w, via) ==
    [kind |-> "fields", msg |-> "", wrapped |-> w, attrs |-> NilSlice,
     given |-> <<>>, pc |-> 0, fields |-> f, via |-> via]

Errs == 1..Len(errs)

\* the type has a method Unwrap() error
HasUnwrap(i) == errs[i].kind \in {"wrapError", "ErrAttrs", "fields"}

RECURSIVE ErrAttrsUnwrap(_), fieldsUnwrap(_), UnwrapMethod(_)

\* Unwrap that returns the wrapped error itself
ErrAttrsUnwrapDirect(i) == errs[i].wrapped

\* (e *ErrAttrs) Unwrap()
ErrAttrsUnwrap(i) ==
    LET w == errs[i].wrapped IN
    IF ~HasUnwrap(w) THEN w ELSE UnwrapMethod(w)

\* Unwrap that ends the chain at the node
fieldsUnwrapNone(i) == Nil

\* (c *fields) Unwrap()
fieldsUnwrap(i) ==
    LET w == errs[i].wrapped IN
    IF ~HasUnwrap(w) THEN w ELSE UnwrapMethod(w)

\* x.Unwrap() by dynamic type; (*wrapError).Unwrap returns the %w operand
UnwrapMethod(i) ==
    CASE errs[i].kind = "ErrAttrs" -> ErrAttrsUnwrap(i)
      [] errs[i].kind = "fields" -> fieldsUnwrap(i)
      [] OTHER -> errs[i].wrapped

\* errors.Unwrap(err)
Unwrap(i) == IF i # Nil /\ HasUnwrap(i) THEN UnwrapMethod(i) ELSE Nil

RECURSIVE ErrorOf(_)
\* Error that renders the attributes too
ErrAttrsErrorVerbose(i) == ErrorOf(errs[i].wrapped) \o " (attrs)"
\* (e *ErrAttrs) Error()
ErrAttrsError(i) == ErrorOf(errs[i].wrapped)
\* (c *fields) Error()
fieldsError(i) == ErrorOf(errs[i].wrapped)
\* x.Error() by dynamic type
ErrorOf(i) ==
    CASE errs[i].kind = "ErrAttrs" -> ErrAttrsError(i)
      [] errs[i].kind = "fields" -> fieldsError(i)
      [] OTHER -> errs[i].msg

\* the capability interfaces: HasAttrs and HasFields
Interfaces == {"HasAttrs", "HasFields"}

\* the value can be assigned to a variable of the interface
Implements(i, iface) ==
    CASE iface = "HasAttrs" -> errs[i].kind = "ErrAttrs"
      [] iface = "HasFields" -> errs[i].kind = "fields"
      [] OTHER -> FALSE

\* errors.As(err, &target) for an interface target: the first error of the
\* chain that implements it, Nil when there is none
RECURSIVE As(_, _)
As(i, iface) ==
    IF i = Nil THEN Nil
    ELSE IF Implements(i, iface) THEN i
    ELSE As(Unwrap(i), iface)

\* Is that matches the very same node only
ErrAttrsIsSame(i, target) == i = target

\* (e *ErrAttrs) Is(target)
ErrAttrsIs(i, target) == errs[target].kind = "ErrAttrs"
\* (c *fields) Is(target)
fieldsIs(i, target) == errs[target].kind = "fields"

IsMethod(i, target) ==
    CASE errs[i].kind = "ErrAttrs" -> ErrAttrsIs(i, target)
      [] errs[i].kind = "fields" -> fieldsIs(i, target)
      [] OTHER -> FALSE

\* errors.Is(err, target), target not nil
RECURSIVE Is(_, _)
Is(i, target) ==
    IF i = Nil THEN FALSE
    ELSE \/ i = target
         \/ IsMethod(i, target)
         \/ Is(Unwrap(i), target)

-----------------------------------------------------------------------------
(* Collectors.  Every slice they return is freshly allocated, so they are  *)
(* functions of the heap.  A nil slice and an empty one are both <<>>:     *)
(* the collectors return nil whenever they return no element.              *)

\* Attrs that keeps the node's own pc when the child has attributes
RECURSIVE ErrAttrsAttrsOwnPC(_)
ErrAttrsAttrsOwnPC(i) ==
    LET result == SliceData(arrays, errs[i].attrs)
        a == As(errs[i].wrapped, "HasAttrs")
    IN  IF a # Nil
        THEN LET c == ErrAttrsAttrsOwnPC(a) IN
             IF c.attrs = <<>>
             THEN [attrs |-> result, pc |-> c.pc]
             ELSE [attrs |-> result \o c.attrs, pc |-> errs[i].pc]
        ELSE [attrs |-> result, pc |-> errs[i].pc]

\* Attrs that never takes the child's pc
RECURSIVE ErrAttrsAttrsNoChildPC(_)
ErrAttrsAttrsNoChildPC(i) ==
    LET result == SliceData(arrays, errs[i].attrs)
        a == As(errs[i].wrapped, "HasAttrs")
    IN  IF a # Nil
        THEN [attrs |-> result \o ErrAttrsAttrsNoChildPC(a).attrs, pc |-> errs[i].pc]
        ELSE [attrs |-> result, pc |-> errs[i].pc]

\* (e *ErrAttrs) Attrs(): [attrs, pc]
RECURSIVE ErrAttrsAttrs(_)
ErrAttrsAttrs(i) ==
    LET result == SliceData(arrays, errs[i].attrs)
        a == As(errs[i].wrapped, "HasAttrs")
    IN  IF a # Nil
        THEN LET c == ErrAttrsAttrs(a) IN
             IF c.attrs = <<>>
             THEN [attrs |-> result, pc |-> c.pc]
             ELSE [attrs |-> result \o c.attrs, pc |-> c.pc]
        ELSE [attrs |-> result, pc |-> errs[i].pc]

\* []slog.Attr{slog.Any("", nil)}
Placeholder == <<Attr("", NilV)>>

\* AttrsFrom that returns nil when nothing is found
AttrsFromNilOnMiss(i) ==
    LET a == As(i, "HasAttrs") IN
    IF a # Nil THEN ErrAttrsAttrs(a).attrs ELSE <<>>

\* AttrsFrom(err)
AttrsFrom(i) ==
    LET a == As(i, "HasAttrs") IN
    IF a # Nil THEN ErrAttrsAttrs(a).attrs ELSE Placeholder

\* what runtime.CallersFrames reports for a pc
FrameFile(pc) == [t |-> "frame.File", pc |-> pc]
FrameFunction(pc) == [t |-> "frame.Function", pc |-> pc]
FrameLine(pc) == [t |-> "frame.Line", pc |-> pc]

\* attrsFromPC with the function listed before the file
attrsFromPCFunctionFirst(pc) ==
    << Attr(OtelCodeFunction, FrameFunction(pc)),
       Attr(OtelCodeFilePath, FrameFile(pc)),
       Attr(OtelCodeLineNo, FrameLine(pc)) >>

\* attrsFromPC(pc)
attrsFromPC(pc) ==
    << Attr(OtelCodeFilePath, FrameFile(pc)),
       Attr(OtelCodeFunction, FrameFunction(pc)),
       Attr(OtelCodeLineNo, FrameLine(pc)) >>

\* AttrsWithCodeLoc(err)
AttrsWithCodeLoc(i) ==
    LET a == As(i, "HasAttrs") IN
    IF a # Nil
    THEN LET r == ErrAttrsAttrs(a) IN r.attrs \o attrsFromPC(r.pc)
    ELSE Placeholder

\* Fields that lists the child's fields before the node's own
RECURSIVE fieldsFieldsChildFirst(_)
fieldsFieldsChildFirst(i) ==
    LET result == errs[i].fields
        f == As(errs[i].wrapped, "HasFields")
    IN  IF f # Nil
        THEN LET child == fieldsFieldsChildFirst(f) IN
             IF child = <<>> THEN result ELSE child \o result
        ELSE result

\* (c *fields) Fields()
RECURSIVE fieldsFields(_)
fieldsFields(i) ==
    LET result == errs[i].fields
        f == As(errs[i].wrapped, "HasFields")
    IN  IF f # Nil
        THEN LET child == fieldsFields(f) IN
             IF child = <<>> THEN result ELSE result \o child
        ELSE result

\* m[k] = v on a Go map
MapPut(m, k, v) == [x \in (DOMAIN m) \cup {k} |-> IF x = k THEN v ELSE m[x]]

\* the loop of ToMap: every decoded attribute stored under its key
RECURSIVE PutAll(_, _)
PutAll(m, args) ==
    IF Len(args) = 0 THEN m
    ELSE LET r == argsToAttr(args) IN PutAll(MapPut(m, r[1].key, r[1].val), r[2])

\* ToMap(err), err not nil
ToMap(i) ==
    LET result == [x \in {"err"} |-> Str(ErrorOf(i))]
        f == As(i, "HasFields")
    IN  IF f # Nil THEN PutAll(result, fieldsFields(f)) ELSE result

\* ToAttr(err), err not nil
ToAttr(i) ==
    LET result == <<Str("err"), Str(ErrorOf(i))>>
        f == As(i, "HasFields")
    IN  IF f # Nil THEN result \o fieldsFields(f) ELSE result

-----------------------------------------------------------------------------
(* Operations that make errors.  maxE bounds the heap.                     *)

\* recv: what the receiver holds (<<>> for a package-level function);
\* arg: the error handed in, Nil when there is none; ret: the error returned
Called(op, recv, arg, ret) == [op |-> op, recv |-> recv, arg |-> arg, ret |-> ret]

\* one new error value
Alloc1(e, op, recv, arg, maxE) ==
    /\ Len(errs) + 1 <= maxE
    /\ errs' = Append(errs, e)
    /\ call' = Called(op, recv, arg, Len(errs) + 1)
    /\ UNCHANGED <<arrays, builders, supplied, dorig, dargs, dattrs, dpc, ltarget>>

\* two new error values: the wrapped one, then the node around it
Alloc2(inner, node, op, recv, arg, maxE) ==
    /\ Len(errs) + 2 <= maxE
    /\ errs' = errs \o <<inner, node>>
    /\ call' = Called(op, recv, arg, Len(errs) + 2)
    /\ UNCHANGED <<arrays, builders, supplied, dorig, dargs, dattrs, dpc, ltarget>>

\* Wrap(nil): nil is returned and nothing is made
ReturnNil(op, recv) ==
    /\ call' = Called(op, recv, Nil, Nil)
    /\ UNCHANGED <<arrays, builders, supplied, errs, dorig, dargs, dattrs, dpc,
                   ltarget>>

\* the call site runtime.Callers(2, ...) reports: one per call
CallerPC == Len(errs) + 1

\* what fmt.Errorf(format, args...) returns: w is the operand of the
\* format's %w, Nil for a format without one
FmtErrorf(w) ==
    IF w = Nil THEN ErrorString("f")
    ELSE WrapError("f: " \o ErrorOf(w), w)

\* errors.New(msg)
New(m, maxE) == Alloc1(ErrorString(m), "New", <<>>, Nil, maxE)

\* fmt.Errorf("w: %w", err) in the caller's code
StdErrorf(w, maxE) ==
    Alloc1(WrapError("w: " \o ErrorOf(w), w), "fmt.Errorf", <<>>, w, maxE)

\* Wrap without the nil check
AttrsWrapNoNilCheck(b, e, maxE) ==
    Alloc1(ErrAttrs(CallerPC, b, e, "Wrap"), "Attrs.Wrap", BuilderAttrs(b), e, maxE)

\* (a *Attrs) Wrap(err)
AttrsWrap(b, e, maxE) ==
    IF e = Nil THEN ReturnNil("Attrs.Wrap", BuilderAttrs(b))
    ELSE Alloc1(ErrAttrs(CallerPC, b, e, "Wrap"), "Attrs.Wrap", BuilderAttrs(b),
                e, maxE)

\* (a *Attrs) Error(msg)
AttrsError(b, m, maxE) ==
    Alloc2(ErrorString(m), ErrAttrs(CallerPC, b, Len(errs) + 1, "Error"),
           "Attrs.Error", BuilderAttrs(b), Nil, maxE)

\* (a *Attrs) Errorf(format, args...)
AttrsErrorf(b, w, maxE) ==
    Alloc2(FmtErrorf(w), ErrAttrs(CallerPC, b, Len(errs) + 1, "Errorf"),
           "Attrs.Errorf", BuilderAttrs(b), w, maxE)

\* Wrap(err)
PkgWrap(e, maxE) ==
    IF e = Nil THEN ReturnNil("Wrap", <<>>)
    ELSE Alloc1(ErrAttrs(CallerPC, 0, e, "Wrap"), "Wrap", <<>>, e, maxE)

\* Error(msg)
PkgError(m, maxE) ==
    Alloc2(ErrorString(m), ErrAttrs(CallerPC, 0, Len(errs) + 1, "Error"),
           "Error", <<>>, Nil, maxE)

\* Errorf(format, args...)
PkgErrorf(w, maxE) ==
    Alloc2(FmtErrorf(w), ErrAttrs(CallerPC, 0, Len(errs) + 1, "Errorf"),
           "Errorf", <<>>, w, maxE)

\* (f Fields) Wrap(err)
FieldsWrap(f, e, maxE) ==
    IF e = Nil THEN ReturnNil("Fields.Wrap", f)
    ELSE Alloc1(FieldsNode(f, e, "Wrap"), "Fields.Wrap", f, e, maxE)

\* (f Fields) Error(msg)
FieldsError(f, m, maxE) ==
    Alloc2(ErrorString(m), FieldsNode(f, Len(errs) + 1, "Error"),
           "Fields.Error", f, Nil, maxE)

\* (f Fields) Errorf(format, args...)
FieldsErrorf(f, w, maxE) ==
    Alloc2(FmtErrorf(w), FieldsNode(f, Len(errs) + 1, "Errorf"),
           "Fields.Errorf", f, w, maxE)

-----------------------------------------------------------------------------
(* Formatting *)

\* fmt's %+v of a value of type any
RECURSIVE ValueString(_)
ValueString(v) ==
    CASE v.t = "string" -> v.s
      [] v.t = "int" -> ToString(v.n)
      [] v.t = "attr" -> v.key \o "=" \o ValueString(v.val)
      [] OTHER -> "<nil>"

\* the loop shared by formatAttrs and FormatFields: attributes written as
\* key=value, ", " before each one but the first
RECURSIVE WriteAttrs(_, _, _)
WriteAttrs(buf, count, attrs) ==
    IF Len(attrs) = 0 THEN buf
    ELSE LET a == Head(attrs)
             sep == IF count > 0 THEN ", " ELSE ""
         IN  WriteAttrs(buf \o sep \o a.key \o "=" \o ValueString(a.val),
                        count + 1, Tail(attrs))

\* formatAttrs that renders the node's own attributes only
formatAttrsOwn(i) == WriteAttrs("", 0, SliceData(arrays, errs[i].attrs))

\* (e *ErrAttrs) formatAttrs()
formatAttrs(i) == WriteAttrs("", 0, ErrAttrsAttrs(i).attrs)

\* (c *fields) FormatFields()
FormatFields(i) == WriteAttrs("", 0, argsToAttrSlice(fieldsFields(i)))

\* fmt.Sprintf("%+v", err): Format(s, 'v') with the + flag for a node,
\* Error() for the errors of the standard library
RECURSIVE SprintfPlusV(_)
SprintfPlusV(i) ==
    CASE errs[i].kind = "ErrAttrs" ->
            SprintfPlusV(errs[i].wrapped) \o " (" \o formatAttrs(i) \o ")"
      [] errs[i].kind = "fields" ->
            SprintfPlusV(errs[i].wrapped) \o " (" \o FormatFields(i) \o ")"
      [] OTHER -> errs[i].msg

\* what (e *ErrAttrs) Format and (c *fields) Format write for a verb
Format(i, verb, plus) ==
    CASE verb = "v" /\ plus -> SprintfPlusV(i)
      [] verb \in {"v", "s", "q"} -> ErrorOf(i)
      [] OTHER -> ""

-----------------------------------------------------------------------------
(* Last(err, &target) *)

\* the loop of Last: the chain is walked by errors.Unwrap to its end and
\* the most recent error that implements the interface is kept
RECURSIVE LastIn(_, _, _)
LastIn(i, iface, found) ==
    IF i = Nil THEN found
    ELSE LastIn(Unwrap(i), iface, IF Implements(i, iface) THEN i ELSE found)

\* Last(err, &target), target a variable of the interface type; target
\* is written only when something was found
Last(e, iface) ==
    /\ LET m == LastIn(e, iface, Nil) IN
        /\ ltarget' = IF m # Nil THEN [ltarget EXCEPT ![iface] = m] ELSE ltarget
        /\ call' = Called("Last", iface, e, m # Nil)
    /\ UNCHANGED <<arrays, builders, supplied, errs, dorig, dargs, dattrs, dpc>>

-----------------------------------------------------------------------------
(* The decoder run on its own *)

\* one turn of the loop of argsToAttrSlice
DecodeStep ==
    /\ dpc = "loop"
    /\ Len(dargs) > 0
    /\ LET r == argsToAttr(dargs) IN
        /\ dattrs' = Append(dattrs, r[1])
        /\ dargs' = r[2]
    /\ UNCHANGED <<arrays, builders, supplied, errs, call, dorig, dpc, ltarget>>

\* the loop ends and attrs is returned
DecodeReturn ==
    /\ dpc = "loop"
    /\ Len(dargs) = 0
    /\ dpc' = "done"
    /\ UNCHANGED <<arrays, builders, supplied, errs, call, dorig, dargs, dattrs,
                   ltarget>>

-----------------------------------------------------------------------------
(* Specifications *)

EmptyHeap ==
    /\ arrays = <<>>
    /\ builders = <<>>
    /\ supplied = <<>>
    /\ errs = <<>>
    /\ call = Called("none", <<>>, Nil, Nil)
    /\ ltarget = [iface \in Interfaces |-> Nil]

Init ==
    /\ EmptyHeap
    /\ dorig = <<>>
    /\ dargs = <<>>
    /\ dattrs = <<>>
    /\ dpc = "idle"

Builders == 0..Len(builders)
ErrsOrNil == 0..Len(errs)
\* the errors handed to Wrap
WrapArgs(nilToo) == IF nilToo THEN ErrsOrNil ELSE Errs

Program(maxB, maxE, nilToo) ==
    \/ \E b \in Builders, args \in ArgMenu : With(b, args, maxB)
    \/ \E b \in Builders, as \in AttrMenu : WithAttr(b, as, maxB)
    \/ \E m \in Msgs : New(m, maxE)
    \/ \E w \in Errs : StdErrorf(w, maxE)
    \/ \E b \in Builders, e \in WrapArgs(nilToo) : AttrsWrap(b, e, maxE)
    \/ \E b \in Builders, m \in Msgs : AttrsError(b, m, maxE)
    \/ \E b \in Builders, w \in ErrsOrNil : AttrsErrorf(b, w, maxE)
    \/ \E e \in WrapArgs(nilToo) : PkgWrap(e, maxE)
    \/ \E m \in Msgs : PkgError(m, maxE)
    \/ \E w \in ErrsOrNil : PkgErrorf(w, maxE)
    \/ \E f \in ArgMenu, e \in WrapArgs(nilToo) : FieldsWrap(f, e, maxE)
    \/ \E f \in ArgMenu, m \in Msgs : FieldsError(f, m, maxE)
    \/ \E f \in ArgMenu, w \in ErrsOrNil : FieldsErrorf(f, w, maxE)

Next == Program(MaxBuilders, MaxErrs, FALSE)

Spec == Init /\ [][Next]_vars

NextAlias == Program(AliasBuilders, AliasErrs, FALSE)

SpecAlias == Init /\ [][NextAlias]_vars

NextNil == Program(NilBuilders, NilErrs, TRUE)

SpecNil == Init /\ [][NextNil]_vars

\* the field subsystem on its own
NextFields ==
    \/ \E m \in Msgs : New(m, FieldsErrs)
    \/ \E w \in Errs : StdErrorf(w, FieldsErrs)
    \/ \E f \in FieldMenu, e \in Errs : FieldsWrap(f, e, FieldsErrs)
    \/ \E f \in FieldMenu, m \in Msgs : FieldsError(f, m, FieldsErrs)
    \/ \E f \in FieldMenu, w \in ErrsOrNil : FieldsErrorf(f, w, FieldsErrs)

SpecFields == Init /\ [][NextFields]_vars

\* chains built by Error, Errorf and fmt.Errorf, searched by Last
NextLast ==
    \/ \E f \in LastFields, m \in LastMsgs : FieldsError(f, m, LastErrs)
    \/ \E f \in LastFields, w \in Errs : FieldsErrorf(f, w, LastErrs)
    \/ \E w \in Errs : StdErrorf(w, LastErrs)
    \/ \E w \in Errs : PkgErrorf(w, LastErrs)
    \/ \E e \in Errs, iface \in Interfaces : Last(e, iface)

SpecLast == Init /\ [][NextLast]_vars

\* the same argument lists attached by With(...).Wrap and by Fields{...}.Wrap
NextPair ==
    \/ \E args \in PairMenu : With(0, args, PairBuilders)
    \/ \E m \in LastMsgs : New(m, PairErrs)
    \/ \E b \in 1..Len(builders), e \in Errs : AttrsWrap(b, e, PairErrs)
    \/ \E f \in PairMenu, e \in Errs : FieldsWrap(f, e, PairErrs)

SpecPair == Init /\ [][NextPair]_vars

\* every sequence over S of length at most n
RECURSIVE SeqsUpTo(_, _)
SeqsUpTo(S, n) ==
    IF n = 0 THEN {<<>>}
    ELSE LET shorter == SeqsUpTo(S, n - 1) IN
         shorter \cup {Append(s, x) : s \in shorter, x \in S}

InitDecode ==
    /\ EmptyHeap
    /\ dorig \in SeqsUpTo(DecodeElems, MaxDecodeLen)
    /\ dargs = dorig
    /\ dattrs = <<>>
    /\ dpc = "loop"

NextDecode == DecodeStep \/ DecodeReturn

SpecDecode == InitDecode /\ [][NextDecode]_vars

-----------------------------------------------------------------------------
(* Vocabulary of the properties *)

AttrNodes == {i \in Errs : errs[i].kind = "ErrAttrs"}
FieldNodes == {i \in Errs : errs[i].kind = "fields"}
Nodes == AttrNodes \cup FieldNodes

\* the chain of err: err, errors.Unwrap(err), ... up to nil
RECURSIVE Chain(_)
Chain(i) == IF i = Nil THEN <<>> ELSE <<i>> \o Chain(Unwrap(i))

Range(s) == {s[k] : k \in 1..Len(s)}

\* the attributes node n holds now
NodeAttrs(n) == SliceData(arrays, errs[n].attrs)

\* the errors nested in err: err, what it wraps, what that wraps, ...
RECURSIVE Nested(_)
Nested(i) == IF i = Nil THEN {} ELSE {i} \cup Nested(errs[i].wrapped)

\* the attribute-capable errors of the chain of err, and the first of them
CapableIn(i) == {c \in Range(Chain(i)) : Implements(c, "HasAttrs")}
FirstCapable(i) ==
    LET ch == Chain(i)
        ks == {k \in 1..Len(ch) : Implements(ch[k], "HasAttrs")}
    IN  IF ks = {} THEN Nil ELSE ch[CHOOSE k \in ks : \A j \in ks : k <= j]

-----------------------------------------------------------------------------
(* C1: Attrs() of a node is the attributes its builder's With/WithAttr     *)
(* calls supplied, in call order, followed by what Attrs() of the first    *)
(* attribute-capable error of its wrapped chain returns.                   *)
C1_SuppliedThenChild ==
    \A n \in AttrNodes :
        LET c == FirstCapable(errs[n].wrapped) IN
        ErrAttrsAttrs(n).attrs =
            errs[n].given \o (IF c = Nil THEN <<>> ELSE ErrAttrsAttrs(c).attrs)

(* C2: collection is complete: AttrsFrom(err) holds the attributes of      *)
(* every attribute node nested in err, ToAttr(err) the fields of every     *)
(* field node nested in err and ToMap(err) a key for each of them.         *)
C2_CollectionComplete ==
    \A x \in Errs :
        /\ \A n \in Nested(x) \cap AttrNodes :
               Range(NodeAttrs(n)) \subseteq Range(AttrsFrom(x))
        /\ \A n \in Nested(x) \cap FieldNodes :
               /\ Range(errs[n].fields) \subseteq Range(ToAttr(x))
               /\ \A a \in Range(argsToAttrSlice(errs[n].fields)) :
                      a.key \in DOMAIN ToMap(x)

(* C3: b.Wrap(e) keeps the chain of e: every error of e's chain, e         *)
(* included, is in the chain of the node; errors.Is(node, e) holds; and    *)
(* errors.As finds in the node's chain whatever it finds in e's.           *)
C3_WrapKeepsChain ==
    \A n \in Nodes :
        errs[n].via = "Wrap" =>
            LET e == errs[n].wrapped IN
            /\ Range(Chain(e)) \subseteq Range(Chain(n))
            /\ Is(n, e)
            /\ \A iface \in Interfaces : As(e, iface) # Nil => As(n, iface) # Nil

(* C4: nothing is mutated after construction: no step changes the          *)
(* attributes of a builder returned earlier or of a node made earlier.     *)
C4_NeverMutated ==
    [][ /\ \A b \in 1..Len(builders) : BuilderAttrs(b)' = BuilderAttrs(b)
        /\ \A n \in AttrNodes : NodeAttrs(n)' = NodeAttrs(n) ]_vars

-----------------------------------------------------------------------------
\* the attribute node the Attrs() of n ends at: the descent through the
\* first attribute-capable error of each wrapped chain
RECURSIVE Deepest(_)
Deepest(n) ==
    LET c == FirstCapable(errs[n].wrapped) IN
    IF c = Nil THEN n ELSE Deepest(c)

LastThree(s) == SubSeq(s, Len(s) - 2, Len(s))

(* C5: the origin Attrs() returns is the one Attrs() of any attribute-     *)
(* capable error of the wrapped chain returns, whether or not either       *)
(* carries attributes, and the node's own when the chain has none: it is   *)
(* the origin of the attribute node closest to the root cause, and that    *)
(* is the location AttrsWithCodeLoc reports.                               *)
C5_OriginClosestToRoot ==
    /\ \A n \in AttrNodes :
        LET r == ErrAttrsAttrs(n)
            cs == CapableIn(errs[n].wrapped)
        IN  /\ \A c \in cs : r.pc = ErrAttrsAttrs(c).pc
            /\ cs = {} => r.pc = errs[n].pc
            /\ r.pc = errs[Deepest(n)].pc
    /\ \A x \in Errs :
        LET a == FirstCapable(x) IN
        a # Nil => LastThree(AttrsWithCodeLoc(x)) = attrsFromPC(errs[Deepest(a)].pc)

\* an outer node without attributes around an inner node with attributes
\* made elsewhere: Attrs() of the outer is the inner's attributes and origin
C5_Witness ==
    \E n1, n2 \in AttrNodes :
        /\ errs[n1].wrapped = n2
        /\ NodeAttrs(n1) = <<>>
        /\ NodeAttrs(n2) # <<>>
        /\ errs[n1].pc # errs[n2].pc
        /\ ErrAttrsAttrs(n1) = [attrs |-> NodeAttrs(n2), pc |-> errs[n2].pc]

(* C6: message transparency: Error() of a node is Error() of its direct    *)
(* cause, so a node made by Wrap(e) reads as e, a node made by Error(msg)  *)
(* reads msg, and attached attributes or fields never show in it.          *)
C6_MessageTransparent ==
    \A n \in Nodes :
        LET w == errs[n].wrapped IN
        /\ ErrorOf(n) = ErrorOf(w)
        /\ errs[n].via = "Error" => ErrorOf(n) = errs[w].msg /\ ErrorOf(n) \in Msgs
        /\ errs[w].kind \in {"errorString", "wrapError"} => ErrorOf(n) = errs[w].msg

\* a node with attributes made by Wrap around an ordinary wrapper of a
\* plain error: it reads as the wrapper does
C6_Witness ==
    \E n \in AttrNodes :
        LET w == errs[n].wrapped IN
        /\ errs[n].via = "Wrap"
        /\ NodeAttrs(n) # <<>>
        /\ errs[w].kind = "wrapError"
        /\ errs[errs[w].wrapped].kind = "errorString"
        /\ ErrorOf(n) = "w: " \o errs[errs[w].wrapped].msg

WrapOps == {"Attrs.Wrap", "Wrap", "Fields.Wrap"}

(* C7: nil-wrap identity: every Wrap returns nil for nil and makes         *)
(* nothing, whatever the builder holds; for a non-nil error it returns a   *)
(* new node around that error.                                             *)
C7_NilWrapIdentity ==
    [][ call'.op \in WrapOps =>
          IF call'.arg = Nil
          THEN /\ call'.ret = Nil
               /\ errs' = errs
               /\ arrays' = arrays
               /\ builders' = builders
          ELSE /\ call'.ret # Nil
               /\ Len(errs') = Len(errs) + 1
               /\ call'.ret = Len(errs')
               /\ errs'[call'.ret].kind \in {"ErrAttrs", "fields"}
               /\ errs'[call'.ret].wrapped = call'.arg ]_vars

\* Wrap(nil) was just called on a builder that holds attributes, with
\* errors on the heap, and returned nil
C7_Witness ==
    /\ call.op = "Attrs.Wrap"
    /\ call.recv # <<>>
    /\ call.arg = Nil
    /\ call.ret = Nil
    /\ errs # <<>>

RECURSIVE DecodedFrom(_, _)
DecodedFrom(args, k) ==
    IF k > Len(args) THEN <<>>
    ELSE LET x == args[k] IN
         CASE x.t = "attr" -> <<Attr(x.key, x.val)>> \o DecodedFrom(args, k + 1)
           [] x.t = "string" /\ k < Len(args) ->
                  <<Attr(x.s, args[k + 1])>> \o DecodedFrom(args, k + 2)
           [] x.t = "string" /\ k = Len(args) -> <<Attr("!BADKEY", x)>>
           [] OTHER -> <<Attr("!BADKEY", x)>> \o DecodedFrom(args, k + 1)

Consumed == Len(dorig) - Len(dargs)

(* C9: pairwise decoding never fails and consumes every element once,      *)
(* left to right: what is left is always a suffix of the arguments, what   *)
(* is decoded is the rule applied to the consumed prefix, and a list of n  *)
(* elements yields between ceil(n/2) and n attributes.                     *)
C9_DecodeTotal ==
    dpc \in {"loop", "done"} =>
        /\ dargs = SubSeq(dorig, Consumed + 1, Len(dorig))
        /\ dattrs = DecodedFrom(SubSeq(dorig, 1, Consumed), 1)
        /\ dpc = "done" =>
               /\ dargs = <<>>
               /\ dattrs = DecodedFrom(dorig, 1)
               /\ dattrs = argsToAttrSlice(dorig)
               /\ 2 * Len(dattrs) >= Len(dorig)
               /\ Len(dattrs) <= Len(dorig)
               /\ dorig = <<Str("onlykey")>> => dattrs = <<Attr("!BADKEY", Str("onlykey"))>>
               /\ dorig = <<IntV(42)>> => dattrs = <<Attr("!BADKEY", IntV(42))>>

\* a key with its value, then a lone trailing string, were decoded
C9_Witness ==
    /\ dpc = "done"
    /\ dorig = <<Str("k"), AttrV("x", IntV(7)), Str("onlykey")>>
    /\ dattrs = <<Attr("k", AttrV("x", IntV(7))), Attr("!BADKEY", Str("onlykey"))>>

\* no attribute node nested in err carries attributes
NoAttrsIn(x) == \A n \in Nested(x) \cap AttrNodes : NodeAttrs(n) = <<>>

-----------------------------------------------------------------------------
\* the first error of the chain of err that implements the interface
FirstOf(i, iface) ==
    LET ch == Chain(i)
        ks == {k \in 1..Len(ch) : Implements(ch[k], iface)}
    IN  IF ks = {} THEN Nil ELSE ch[CHOOSE k \in ks : \A j \in ks : k <= j]

\* the field nodes collection from err visits, outermost first
RECURSIVE FieldPath(_)
FieldPath(i) ==
    LET f == FirstOf(i, "HasFields") IN
    IF f = Nil THEN <<>> ELSE <<f>> \o FieldPath(errs[f].wrapped)

\* the (key, value) pairs node n carries: its own field list decoded
Carried(n) == argsToAttrSlice(errs[n].fields)
KeysOf(n) == {a.key : a \in Range(Carried(n))}
\* the value node n gives key k (the last one, should it repeat the key)
ValueAt(n, k) ==
    LET c == Carried(n)
        js == {j \in 1..Len(c) : c[j].key = k}
    IN  c[CHOOSE j \in js : \A l \in js : l <= j].val

(* C11: ToMap child precedence: a key carried by several field nodes of    *)
(* the chain maps to the value of the innermost node carrying it, and a    *)
(* key carried by one node only maps to that node's value.                 *)
C11_ChildPrecedence ==
    \A x \in Errs :
        LET p == FieldPath(x) IN
        \A j \in 1..Len(p) :
            \A k \in KeysOf(p[j]) :
                (\A l \in (j + 1)..Len(p) : k \notin KeysOf(p[l])) =>
                    /\ k \in DOMAIN ToMap(x)
                    /\ ToMap(x)[k] = ValueAt(p[j], k)

(* C12: ToMap(err) always has the reserved key "err", and it holds         *)
(* err.Error() whatever fields are attached; without a field-capable       *)
(* error in the chain the map is exactly {"err": err.Error()}.             *)
C12_ErrKeyReserved ==
    \A x \in Errs :
        /\ "err" \in DOMAIN ToMap(x)
        /\ ToMap(x)["err"] = Str(ErrorOf(x))
        /\ FirstOf(x, "HasFields") = Nil =>
               ToMap(x) = [k \in {"err"} |-> Str(ErrorOf(x))]

\* the raw fields collection from err gathers: each visited node's own
\* field list, outermost first
RECURSIVE RawFields(_)
RawFields(p) == IF p = <<>> THEN <<>> ELSE errs[Head(p)].fields \o RawFields(Tail(p))

(* C13: ToAttr(err) is "err", err.Error() followed by the raw fields of    *)
(* the first field-capable error of the chain: its own field values, then  *)
(* those of the first field-capable error of its wrapped chain, and so     *)
(* on, outer before inner; without one it is exactly "err", err.Error().   *)
C13_ToAttrRaw ==
    \A x \in Errs :
        /\ SubSeq(ToAttr(x), 1, 2) = <<Str("err"), Str(ErrorOf(x))>>
        /\ SubSeq(ToAttr(x), 3, Len(ToAttr(x))) = RawFields(FieldPath(x))
        /\ FirstOf(x, "HasFields") = Nil =>
               ToAttr(x) = <<Str("err"), Str(ErrorOf(x))>>
        /\ \A f \in FieldNodes :
               LET c == FirstOf(errs[f].wrapped, "HasFields") IN
               fieldsFields(f) =
                   errs[f].fields \o (IF c = Nil THEN <<>> ELSE fieldsFields(c))

\* a field node with an odd field list around another field node: ToAttr
\* lists the outer's raw values, then the inner's, none of them decoded
C13_Witness ==
    \E x, y \in FieldNodes :
        /\ errs[x].wrapped = y
        /\ errs[x].fields = <<Str("k2"), IntV(42), Str("odd")>>
        /\ errs[y].fields = <<Str("k"), Str("inner")>>
        /\ ToAttr(x) = <<Str("err"), Str(ErrorOf(y)), Str("k2"), IntV(42),
                         Str("odd"), Str("k"), Str("inner")>>

-----------------------------------------------------------------------------
\* the errors nested in err, outermost first
RECURSIVE NestedSeq(_)
NestedSeq(i) == IF i = Nil THEN <<>> ELSE <<i>> \o NestedSeq(errs[i].wrapped)

\* no node nested in err was made by Wrap: every node wraps the error
\* Error or Errorf made for it
WrapFree(i) == \A n \in Nested(i) \cap Nodes : errs[n].via # "Wrap"

\* the positions of s whose error implements the interface
Matches(s, iface) == {k \in 1..Len(s) : Implements(s[k], iface)}
MaxOf(S) == CHOOSE k \in S : \A j \in S : j <= k

(* C14: Last(err, &target) walks the whole chain by single-level unwrap;   *)
(* when some error of the chain implements the capability it sets target   *)
(* to the last of them, the one closest to the root cause, and returns     *)
(* true; otherwise it returns false and leaves target as it was.  In a     *)
(* chain built by Error, Errorf and fmt.Errorf that is the innermost node, *)
(* whose Error() is the message built there.                               *)
C14_LastInnermost ==
    [][ call'.op = "Last" =>
          LET e == call'.arg
              iface == call'.recv
              ch == Chain(e)
              ks == Matches(ch, iface)
              ns == NestedSeq(e)
              js == Matches(ns, iface)
          IN  /\ errs' = errs
              /\ \A o \in Interfaces \ {iface} : ltarget'[o] = ltarget[o]
              /\ IF ks = {}
                 THEN call'.ret = FALSE /\ ltarget' = ltarget
                 ELSE call'.ret = TRUE /\ ltarget'[iface] = ch[MaxOf(ks)]
              /\ js # {} /\ WrapFree(e) =>
                     LET b == ns[MaxOf(js)] IN
                     /\ call'.ret = TRUE
                     /\ ltarget'[iface] = b
                     /\ errs[b].via = "Error" =>
                            /\ ErrorOf(ltarget'[iface]) = errs[errs[b].wrapped].msg
                            /\ ErrorOf(ltarget'[iface]) \in LastMsgs ]_vars

\* Top -> Mid (fields) -> plain -> Bottom (fields) -> root was searched:
\* Last set target to Bottom, which reads "bottom", where errors.As
\* finds Mid
C14_Witness ==
    /\ call.op = "Last"
    /\ call.recv = "HasFields"
    /\ call.ret = TRUE
    /\ \E top, mid, plain, bottom \in Errs :
        /\ call.arg = top
        /\ errs[top].kind = "wrapError" /\ errs[top].wrapped = mid
        /\ errs[mid].kind = "fields" /\ errs[mid].via = "Errorf"
        /\ errs[errs[mid].wrapped].wrapped = plain
        /\ errs[plain].kind = "wrapError" /\ errs[plain].wrapped = bottom
        /\ errs[bottom].kind = "fields" /\ errs[bottom].via = "Error"
        /\ errs[errs[bottom].wrapped].kind = "errorString"
        /\ As(top, "HasFields") = mid
        /\ ltarget["HasFields"] = bottom
        /\ ErrorOf(bottom) = "bottom"
        /\ ErrorOf(mid) # "bottom"

-----------------------------------------------------------------------------
CodeLocKeys == <<"code.filepath", "code.function", "code.lineno">>

C16_IsByType ==
    /\ \A n \in AttrNodes, t \in Errs : ErrAttrsIs(n, t) <=> t \in AttrNodes
    /\ \A f \in FieldNodes, t \in Errs : fieldsIs(f, t) <=> t \in FieldNodes
    /\ \A x \in Errs, t \in AttrNodes :
        /\ CapableIn(x) # {} => Is(x, t)
        /\ t \notin Range(Chain(x)) /\ Is(x, t) => CapableIn(x) # {}

\* two attribute nodes that differ in attributes, origin and cause, the
\* target not in the chain of the other: Is holds between them
C16_Witness ==
    \E n, t \in AttrNodes :
        /\ t \notin Range(Chain(n))
        /\ NodeAttrs(n) # NodeAttrs(t)
        /\ errs[n].pc # errs[t].pc
        /\ errs[n].wrapped # errs[t].wrapped
        /\ Is(n, t)

-----------------------------------------------------------------------------
\* key=value of each attribute, joined by ", "
RECURSIVE Joined(_)
Joined(attrs) ==
    IF attrs = <<>> THEN ""
    ELSE LET n == Len(attrs)
             last == attrs[n].key \o "=" \o ValueString(attrs[n].val)
         IN  IF n = 1 THEN last
             ELSE Joined(SubSeq(attrs, 1, n - 1)) \o ", " \o last

\* the full attribute list collected from a node, fields decoded pairwise
Collected(n) ==
    IF errs[n].kind = "ErrAttrs" THEN ErrAttrsAttrs(n).attrs
    ELSE argsToAttrSlice(fieldsFields(n))

\* the augmented rendering of an error that is not a node is its Error()
Augmented(i) == IF i \in Nodes THEN Format(i, "v", TRUE) ELSE ErrorOf(i)

(* C17: rendering of a node: %s, %v and %q give exactly Error(); %+v gives *)
(* the augmented rendering of the direct cause, a space, and the node's    *)
(* full collected attribute list as key=value joined by ", " in            *)
(* parentheses.  With("k","outer").Error("m1") renders as "m1" and as      *)
(* "m1 (k=outer)".                                                         *)
C17_Rendering ==
    \A n \in Nodes :
        /\ \A verb \in {"s", "v", "q"} : Format(n, verb, FALSE) = ErrorOf(n)
        /\ Format(n, "s", TRUE) = ErrorOf(n)
        /\ Format(n, "v", TRUE) =
               Augmented(errs[n].wrapped) \o " (" \o Joined(Collected(n)) \o ")"
        /\ errs[n].via = "Error" /\ Collected(n) = <<Attr("k", Str("outer"))>> =>
               /\ Format(n, "v", FALSE) = errs[errs[n].wrapped].msg
               /\ Format(n, "v", TRUE) = errs[errs[n].wrapped].msg \o " (k=outer)"
        /\ errs[n].via = "Error"
             /\ Collected(n) = <<Attr("k2", IntV(42)), Attr("!BADKEY", Str("odd"))>> =>
               Format(n, "v", TRUE) =
                   errs[errs[n].wrapped].msg \o " (k2=42, !BADKEY=odd)"

\* With("k2", 42, "odd").Wrap(With("k2", 42, "odd").Error("m1")): the
\* inner node renders its list, the outer one the whole collected list
C17_Witness ==
    \E n, c \in AttrNodes :
        /\ errs[n].wrapped = c
        /\ errs[c].via = "Error"
        /\ ErrorOf(c) = "m1"
        /\ Format(n, "q", FALSE) = "m1"
        /\ Format(c, "v", TRUE) = "m1 (k2=42, !BADKEY=odd)"
        /\ Format(n, "v", TRUE) =
               "m1 (k2=42, !BADKEY=odd) (k2=42, !BADKEY=odd, k2=42, !BADKEY=odd)"

-----------------------------------------------------------------------------
\* the attribute nodes whose direct cause is an attribute node
OverAttrNode == {n \in AttrNodes : errs[n].wrapped \in AttrNodes}

(* C18, as stated: Attrs() of a node N whose direct cause implements the   *)
(* attribute capability returns (own attributes, child's origin) when the  *)
(* child's list is empty and (own attributes followed by the child's, N's  *)
(* own origin) otherwise.                                                  *)
C18_OwnOriginUnlessChildEmpty ==
    \A n \in OverAttrNode :
        LET child == ErrAttrsAttrs(errs[n].wrapped) IN
        ErrAttrsAttrs(n) =
            IF child.attrs = <<>>
            THEN [attrs |-> NodeAttrs(n), pc |-> child.pc]
            ELSE [attrs |-> NodeAttrs(n) \o child.attrs, pc |-> errs[n].pc]

(* C18, amended: Attrs() of such a node returns its own attributes         *)
(* followed by the child's, and the child's origin in both cases; across   *)
(* a multi-wrap chain the origin is that of the attribute node the         *)
(* collection ends at, not the one captured by the outermost node.         *)
C18_ChildOriginAlways ==
    \A n \in OverAttrNode :
        LET child == ErrAttrsAttrs(errs[n].wrapped) IN
        /\ ErrAttrsAttrs(n).attrs = NodeAttrs(n) \o child.attrs
        /\ ErrAttrsAttrs(n).pc = child.pc
        /\ ErrAttrsAttrs(n).pc = errs[Deepest(errs[n].wrapped)].pc

\* both the outer node and its direct cause carry attributes: the
\* attributes are the outer's then the inner's, the origin the inner's
C18_Witness ==
    \E n \in OverAttrNode :
        LET c == errs[n].wrapped IN
        /\ NodeAttrs(n) # <<>>
        /\ NodeAttrs(c) # <<>>
        /\ errs[n].pc # errs[c].pc
        /\ ErrAttrsAttrs(n) = [attrs |-> NodeAttrs(n) \o NodeAttrs(c), pc |-> errs[c].pc]

-----------------------------------------------------------------------------
\* attribute node a and field node f have the same shape: the list given
\* to With for a is the field list of f, and they wrap the same error
\* without context or nodes of the same shape
RECURSIVE Mirror(_, _)
Mirror(a, f) ==
    /\ a \in AttrNodes
    /\ f \in FieldNodes
    /\ errs[a].given = argsToAttrSlice(errs[f].fields)
    /\ \/ /\ errs[a].wrapped = errs[f].wrapped
          /\ Nested(errs[a].wrapped) \cap Nodes = {}
       \/ Mirror(errs[a].wrapped, errs[f].wrapped)

(* C19: the pairwise decoding gives the same result in both subsystems:    *)
(* for chains of the same shape with the same argument lists, well-formed  *)
(* or not, AttrsFrom of the attribute chain is the collected field list    *)
(* of the field chain decoded pairwise, as ToMap and the augmented         *)
(* rendering decode it.                                                    *)
C19_SameDecoding ==
    \A a \in AttrNodes, f \in FieldNodes :
        Mirror(a, f) =>
            /\ AttrsFrom(a) = argsToAttrSlice(fieldsFields(f))
            /\ formatAttrs(a) = FormatFields(f)

====
